---- MODULE Spec2Model ----
(***************************************************************************)
(* A model of utils/uv_pin.py: make_uv_pin, which wires a uvPin node       *)
(* between an object and a surface through the host's command interface    *)
(* (maya.cmds).  The state is the host's scene graph (nodes, their         *)
(* attributes, the parent/child order and the attribute connections) and   *)
(* the activation frame of make_uv_pin (its arguments, its locals and the  *)
(* line it has reached).  Each action is one block of the function, named  *)
(* by the first line of the block.                                         *)
(*                                                                         *)
(* Node names are sequences of tokens, so that f"{primary_shape}Orig" and  *)
(* f"{object_to_pin}_uvPin" are concatenations.  A plug is a pair          *)
(* <<node, attribute>>, a connection a pair <<source plug, destination     *)
(* plug>>.                                                                 *)
(***************************************************************************)
EXTENDS Naturals, Sequences, FiniteSets, TLC

VARIABLES scene,    \* the host's scene graph
          frame,    \* make_uv_pin's activation: arguments, locals, position
          before,   \* the scene graph as it was when the running call began
          log       \* the calls finished so far, oldest first

vars == <<scene, frame, before, log>>

(***************************************************************************)
(* Bounds of the model.                                                    *)
(***************************************************************************)
MaxShapes == 2      \* shape children of the surface in a starting scene
MaxCalls == 3       \* calls in a sequence of calls (SpecSeq)

(***************************************************************************)
(* Python values.                                                          *)
(***************************************************************************)
None == "None"                  \* the default of normal_axis, tangent_axis
NoNode == <<>>                  \* None, where a node name is expected

\* bool(s) of a str-or-None argument: None and "" are false.
Truthy(s) == s # None /\ s # ""

(***************************************************************************)
(* The host's nodes.  A node carries its type, its place in the hierarchy  *)
(* and, of its type's attributes, those the function reads or writes, at   *)
(* the host's defaults unless the scene says otherwise.                    *)
(***************************************************************************)
Zero3 == <<0, 0, 0>>
Unset == <<>>                   \* coordinate: no entry at index 0

NewNode(type, parent) ==
    CASE type = "transform" ->
            [type |-> type, parent |-> parent, children |-> <<>>,
             translation |-> Zero3, rotation |-> Zero3,
             inheritsTransform |-> TRUE]
      [] type = "uvPin" ->
            [type |-> type, parent |-> parent, children |-> <<>>,
             normalAxis |-> 1, tangentAxis |-> 0,
             normalizedIsoParms |-> FALSE, relativeSpaceMode |-> FALSE,
             coordinate |-> Unset]
      [] OTHER ->
            [type |-> type, parent |-> parent, children |-> <<>>,
             intermediateObject |-> FALSE]

ShapeTypes == {"mesh", "nurbsSurface", "nurbsCurve"}

Suffixes == <<"1", "2", "3", "4", "5", "6", "7", "8">>

\* The host never gives two nodes one name: a requested name that is taken
\* gets the first free numeric suffix.
UniqueName(g, base) ==
    IF base \notin DOMAIN g.nodes THEN base
    ELSE LET free == {k \in 1..Len(Suffixes) :
                         Append(base, Suffixes[k]) \notin DOMAIN g.nodes}
             k == CHOOSE i \in free : \A j \in free : i <= j
         IN  Append(base, Suffixes[k])

Range(s) == {s[i] : i \in 1..Len(s)}

RECURSIVE Descendants(_, _)
Descendants(g, n) ==
    LET kids == Range(g.nodes[n].children)
    IN  kids \cup UNION {Descendants(g, k) : k \in kids}

AddNode(g, name, rec) ==
    LET withNode == (name :> rec) @@ g.nodes
    IN  [g EXCEPT !.nodes =
            IF rec.parent = NoNode THEN withNode
            ELSE [withNode EXCEPT ![rec.parent].children = Append(@, name)]]

\* cmds.listRelatives(n, children=True, shapes=True) or []
listRelatives(g, n) ==
    SelectSeq(g.nodes[n].children, LAMBDA c : g.nodes[c].type \in ShapeTypes)

\* cmds.getAttr(f"{n}.intermediateObject")
isIntermediate(g, n) == g.nodes[n].intermediateObject

\* cmds.objectType(n)
objectType(g, n) == g.nodes[n].type

Plug(n, attr) == <<n, attr>>

CopyOf(g, n, parent) ==
    [g.nodes[n] EXCEPT !.parent = parent, !.children = <<>>]

RECURSIVE CopyChildren(_, _, _, _)
\* The children `kids` copied, in order, under the new transform `t`;
\* `made` collects the names of the copies.
CopyChildren(g, kids, t, made) ==
    IF kids = <<>> THEN [g |-> g, made |-> made]
    ELSE LET name == UniqueName(g, Head(kids))
             g1 == AddNode(g, name, CopyOf(g, Head(kids), t))
         IN  CopyChildren(g1, Tail(kids), t, made \cup {name})

\* cmds.duplicate(shape): the host duplicates the shape's transform with
\* the shapes under it, without their input connections, and returns the
\* new transform.
duplicate(g, shape) ==
    LET p == g.nodes[shape].parent
        t == UniqueName(g, p)
        g1 == AddNode(g, t, CopyOf(g, p, g.nodes[p].parent))
        r == CopyChildren(g1, g.nodes[p].children, t, {t})
    IN  [g |-> r.g, out |-> t, made |-> r.made]

Without(s, x) == SelectSeq(s, LAMBDA y : y # x)

\* cmds.parent(child, newParent, shape=True, relative=True)
parent(g, child, newParent) ==
    LET old == g.nodes[child].parent
        n1 == IF old = NoNode THEN g.nodes
              ELSE [g.nodes EXCEPT ![old].children = Without(@, child)]
    IN  [g EXCEPT !.nodes = [n1 EXCEPT ![child].parent = newParent,
                                       ![newParent].children = Append(@, child)]]

\* cmds.delete(n): the node, everything under it, and their connections.
delete(g, n) ==
    LET gone == {n} \cup Descendants(g, n)
        p == g.nodes[n].parent
        kept == [x \in DOMAIN g.nodes \ gone |-> g.nodes[x]]
    IN  [g EXCEPT
            !.nodes = IF p = NoNode \/ p \in gone THEN kept
                      ELSE [kept EXCEPT ![p].children = Without(@, n)],
            !.conns = {c \in g.conns : c[1][1] \notin gone /\ c[2][1] \notin gone}]

\* cmds.rename(old, new): returns the name the node got.
rename(g, old, new) ==
    LET name == UniqueName(g, new)
        re(x) == IF x = old THEN name ELSE x
        reSeq(s) == [i \in 1..Len(s) |-> re(s[i])]
        keys == (DOMAIN g.nodes \ {old}) \cup {name}
    IN  [g |-> [g EXCEPT
                  !.nodes = [x \in keys |->
                      LET r == g.nodes[IF x = name THEN old ELSE x]
                      IN  [r EXCEPT !.parent = re(@), !.children = reSeq(@)]],
                  !.conns = {<<Plug(re(c[1][1]), c[1][2]),
                               Plug(re(c[2][1]), c[2][2])>> : c \in g.conns}],
         out |-> name]

\* cmds.listConnections(plug, plugs=True, connections=True, destination=True):
\* the plug and the plug on the other side, for the connection into `plug`
\* (a shape's input plug has no outgoing connection in the scenes modelled).
listConnections(g, plug) ==
    LET into == {c \in g.conns : c[2] = plug}
    IN  IF into = {} THEN <<>>
        ELSE <<plug, (CHOOSE c \in into : TRUE)[1]>>

\* cmds.connectAttr(src, dst, force=force): a destination takes one
\* connection; the host refuses a second unless forced, and then replaces.
connectAttr(g, src, dst, force) ==
    LET into == {c \in g.conns : c[2] = dst}
    IN  IF into # {} /\ ~force THEN [g |-> g, ok |-> FALSE]
        ELSE [g |-> [g EXCEPT !.conns = (@ \ into) \cup {<<src, dst>>}],
              ok |-> TRUE]

\* cmds.setAttr(f"{n}.{attr}", value)
setAttr(g, n, attr, value) == [g EXCEPT !.nodes[n][attr] = value]

\* cmds.xform(n, translation=t, rotation=r)
xform(g, n, t, r) ==
    [g EXCEPT !.nodes[n].translation = t, !.nodes[n].rotation = r]

\* cmds.createNode(type, name=name): returns the name the node got.
createNode(g, type, name) ==
    LET nm == UniqueName(g, name)
    IN  [g |-> AddNode(g, nm, NewNode(type, NoNode)), out |-> nm]

(***************************************************************************)
(* make_uv_pin's activation frame: the arguments at their defaults until   *)
(* the caller binds them, the locals, the line reached (pc), the fault     *)
(* that ended the call and the value returned.  `made` and `connected`     *)
(* record the nodes the call created and the connections its connectAttr   *)
(* calls made.                                                             *)
(***************************************************************************)
IdleFrame ==
    [pc |-> "idle",
     object_to_pin |-> NoNode, surface |-> NoNode, u |-> 0, v |-> 0,
     local_space |-> FALSE, normalize |-> FALSE,
     normal_axis |-> None, tangent_axis |-> None, reset_transforms |-> TRUE,
     shapes |-> <<>>, primary_shape |-> NoNode, shape_origin |-> NoNode,
     surface_type |-> "", attr_input |-> "", attr_world |-> "",
     attr_output |-> "", duplicated |-> NoNode, uv_pin |-> NoNode,
     error |-> "none", ret |-> NoNode,
     made |-> {}, connected |-> {}]

\* The two ways a call ends in a fault: cmds.error (a scene-state error) and
\* raise RuntimeError (an argument error); a command the host refuses is a
\* host error.
Raise(f, kind) == [f EXCEPT !.pc = "raised", !.error = kind]

\* next((s for s in shapes if pred(s)), default)
FirstOr(shapes, hits, default) ==
    IF hits = {} THEN default
    ELSE shapes[CHOOSE i \in hits : \A j \in hits : i <= j]

\* The places in `shapes` of the shapes whose intermediateObject is `flag`.
Flagged(g, shapes, flag) ==
    {i \in 1..Len(shapes) : isIntermediate(g, shapes[i]) = flag}

\* Lines 32-34: the surface's shapes, or the "no shape nodes" error.
L32(g, f) ==
    LET shapes == listRelatives(g, f.surface)
    IN  IF shapes = <<>> THEN [g |-> g, f |-> Raise(f, "scene")]
        ELSE [g |-> g, f |-> [f EXCEPT !.shapes = shapes, !.pc = "L37"]]

\* L37 with a plausible bug: the existing intermediate shape is not found.
L37_NoOriginFound(g, f) ==
    [g |-> g,
     f |-> [f EXCEPT
        !.primary_shape =
            FirstOr(f.shapes, Flagged(g, f.shapes, FALSE), f.shapes[1]),
        !.shape_origin = NoNode,
        !.pc = "L41"]]

\* L37 with a plausible bug: the first shape is taken as the primary shape,
\* intermediate or not.
L37_FirstShapeIsPrimary(g, f) ==
    [g |-> g,
     f |-> [f EXCEPT
        !.primary_shape = f.shapes[1],
        !.shape_origin =
            FirstOr(f.shapes, Flagged(g, f.shapes, TRUE), NoNode),
        !.pc = "L41"]]

\* Lines 37-38: the primary shape (non-intermediate if available) and the
\* existing intermediate shape, if any.
L37(g, f) ==
    [g |-> g,
     f |-> [f EXCEPT
        !.primary_shape =
            FirstOr(f.shapes, Flagged(g, f.shapes, FALSE), f.shapes[1]),
        !.shape_origin =
            FirstOr(f.shapes, Flagged(g, f.shapes, TRUE), NoNode),
        !.pc = "L41"]]

\* L41 with a plausible bug: the final else is missing, and any type that is
\* not a mesh is handled as a nurbsSurface.
L41_NoUnsupportedType(g, f) ==
    LET surface_type == objectType(g, f.primary_shape)
        f1 == [f EXCEPT !.surface_type = surface_type]
    IN  IF surface_type = "mesh"
        THEN [g |-> g, f |-> [f1 EXCEPT !.attr_input = "inMesh",
                                        !.attr_world = "worldMesh[0]",
                                        !.attr_output = "outMesh",
                                        !.pc = "L54"]]
        ELSE [g |-> g, f |-> [f1 EXCEPT !.attr_input = "create",
                                        !.attr_world = "worldSpace[0]",
                                        !.attr_output = "local",
                                        !.pc = "L54"]]

\* Lines 41-51: the attribute names for the surface type, or the
\* "unsupported surface type" error.  The names are kept without the dot.
L41(g, f) ==
    LET surface_type == objectType(g, f.primary_shape)
        f1 == [f EXCEPT !.surface_type = surface_type]
    IN  IF surface_type = "mesh"
        THEN [g |-> g, f |-> [f1 EXCEPT !.attr_input = "inMesh",
                                        !.attr_world = "worldMesh[0]",
                                        !.attr_output = "outMesh",
                                        !.pc = "L54"]]
        ELSE IF surface_type = "nurbsSurface"
        THEN [g |-> g, f |-> [f1 EXCEPT !.attr_input = "create",
                                        !.attr_world = "worldSpace[0]",
                                        !.attr_output = "local",
                                        !.pc = "L54"]]
        ELSE [g |-> g, f |-> Raise(f1, "scene")]

\* Lines 54-59: with no intermediate shape, duplicate the primary shape and
\* take the duplicate's first shape.
L54(g, f) ==
    IF f.shape_origin # NoNode THEN [g |-> g, f |-> [f EXCEPT !.pc = "L72"]]
    ELSE LET d == duplicate(g, f.primary_shape)
             shape_origin_list == listRelatives(d.g, d.out)
             f1 == [f EXCEPT !.duplicated = d.out, !.made = @ \cup d.made]
         IN  IF shape_origin_list = <<>>
             THEN [g |-> d.g, f |-> Raise(f1, "scene")]
             ELSE [g |-> d.g,
                   f |-> [f1 EXCEPT !.shape_origin = shape_origin_list[1],
                                    !.pc = "L60"]]

\* L60 with a plausible bug: the duplicate is not deleted.
L60_DuplicateKept(g, f) ==
    LET g1 == parent(g, f.shape_origin, f.surface)
        new_name == Append(f.primary_shape, "Orig")
        r == rename(g1, f.shape_origin, new_name)
    IN  [g |-> r.g,
         f |-> [f EXCEPT !.shape_origin = r.out,
                         !.made = (@ \ {f.shape_origin}) \cup {r.out},
                         !.pc = "L65"]]

\* Lines 60-63: move the shape under the surface, delete the duplicate,
\* rename the shape f"{primary_shape}Orig".
L60(g, f) ==
    LET g1 == parent(g, f.shape_origin, f.surface)
        g2 == delete(g1, f.duplicated)
        new_name == Append(f.primary_shape, "Orig")
        r == rename(g2, f.shape_origin, new_name)
    IN  [g |-> r.g,
         f |-> [f EXCEPT !.shape_origin = r.out,
                         !.made = (@ \ {f.shape_origin}) \cup {r.out},
                         !.pc = "L65"]]

\* A connectAttr call of make_uv_pin: on success the connection is made and
\* recorded; a refusal by the host ends the call.
Connect(g, f, src, dst, force) ==
    LET c == connectAttr(g, src, dst, force)
    IN  IF c.ok THEN [g |-> c.g, f |-> [f EXCEPT !.connected = @ \cup {<<src, dst>>}]]
        ELSE [g |-> g, f |-> Raise(f, "host")]

Failed(r) == r.f.pc = "raised"

\* L65 with a plausible bug: the incoming connection is not rerouted.
L65_NoReroute(g, f) ==
    LET r68 == Connect(g, f, Plug(f.shape_origin, f.attr_world),
                       Plug(f.primary_shape, f.attr_input), TRUE)
    IN  IF Failed(r68) THEN r68
        ELSE [g |-> setAttr(r68.g, f.shape_origin, "intermediateObject", TRUE),
              f |-> [r68.f EXCEPT !.pc = "L72"]]

\* Lines 65-69: reroute the primary shape's incoming connection to the new
\* shape, feed the primary shape from the new shape, flag it intermediate.
L65(g, f) ==
    LET in_conn == listConnections(g, Plug(f.primary_shape, f.attr_input))
        r67 == IF in_conn # <<>>
               THEN Connect(g, f, in_conn[2],
                            Plug(f.shape_origin, f.attr_input), FALSE)
               ELSE [g |-> g, f |-> f]
        r68 == IF Failed(r67) THEN r67
               ELSE Connect(r67.g, r67.f, Plug(f.shape_origin, f.attr_world),
                            Plug(f.primary_shape, f.attr_input), TRUE)
    IN  IF Failed(r68) THEN r68
        ELSE [g |-> setAttr(r68.g, f.shape_origin, "intermediateObject", TRUE),
              f |-> [r68.f EXCEPT !.pc = "L72"]]

\* L72 with a plausible bug: originalGeometry is fed from the primary shape.
L72_OriginalFromPrimary(g, f) ==
    LET n == createNode(g, "uvPin", Append(f.object_to_pin, "_uvPin"))
        uv_pin == n.out
        f0 == [f EXCEPT !.uv_pin = uv_pin, !.made = @ \cup {uv_pin}]
        r73 == Connect(n.g, f0, Plug(f.primary_shape, f.attr_world),
                       Plug(uv_pin, "deformedGeometry"), FALSE)
        r74 == IF Failed(r73) THEN r73
               ELSE Connect(r73.g, r73.f, Plug(f.primary_shape, f.attr_output),
                            Plug(uv_pin, "originalGeometry"), FALSE)
    IN  IF Failed(r74) THEN r74
        ELSE [g |-> r74.g, f |-> [r74.f EXCEPT !.pc = "L75"]]

\* L72 with a plausible bug: the pin's output is connected to the object as
\* soon as the pin is made, before the axis arguments are looked at.
L72_OutputConnectedEarly(g, f) ==
    LET n == createNode(g, "uvPin", Append(f.object_to_pin, "_uvPin"))
        uv_pin == n.out
        f0 == [f EXCEPT !.uv_pin = uv_pin, !.made = @ \cup {uv_pin}]
        r73 == Connect(n.g, f0, Plug(f.primary_shape, f.attr_world),
                       Plug(uv_pin, "deformedGeometry"), FALSE)
        r74 == IF Failed(r73) THEN r73
               ELSE Connect(r73.g, r73.f, Plug(f.shape_origin, f.attr_output),
                            Plug(uv_pin, "originalGeometry"), FALSE)
        r116 == IF Failed(r74) THEN r74
                ELSE Connect(r74.g, r74.f, Plug(uv_pin, "outputMatrix[0]"),
                             Plug(f.object_to_pin, "offsetParentMatrix"), TRUE)
    IN  IF Failed(r116) THEN r116
        ELSE [g |-> r116.g, f |-> [r116.f EXCEPT !.pc = "L75"]]

\* Lines 72-74: create the uvPin node and feed it the two geometries.
L72(g, f) ==
    LET n == createNode(g, "uvPin", Append(f.object_to_pin, "_uvPin"))
        uv_pin == n.out
        f0 == [f EXCEPT !.uv_pin = uv_pin, !.made = @ \cup {uv_pin}]
        r73 == Connect(n.g, f0, Plug(f.primary_shape, f.attr_world),
                       Plug(uv_pin, "deformedGeometry"), FALSE)
        r74 == IF Failed(r73) THEN r73
               ELSE Connect(r73.g, r73.f, Plug(f.shape_origin, f.attr_output),
                            Plug(uv_pin, "originalGeometry"), FALSE)
    IN  IF Failed(r74) THEN r74
        ELSE [g |-> r74.g, f |-> [r74.f EXCEPT !.pc = "L75"]]

\* L75 with a plausible bug (or fix): the transforms are reset only when
\* reset_transforms is true.
L75_OnlyIfAsked(g, f) ==
    [g |-> IF f.reset_transforms THEN xform(g, f.object_to_pin, Zero3, Zero3)
           ELSE g,
     f |-> [f EXCEPT !.pc = "L77"]]

\* Line 75: zero the pinned object's translation and rotation.
L75(g, f) ==
    [g |-> xform(g, f.object_to_pin, Zero3, Zero3),
     f |-> [f EXCEPT !.pc = "L77"]]

AxisNames == <<"x", "y", "z", "-x", "-y", "-z">>

\* The if/elif chains of lines 78-89 and 96-107: the names they know, and
\* the enum value each sets (x is 0, ..., -z is 5).
IsAxisName(axis) == \E i \in 1..Len(AxisNames) : AxisNames[i] = axis
AxisIndex(axis) == (CHOOSE i \in 1..Len(AxisNames) : AxisNames[i] = axis) - 1

\* SetAxis with a plausible bug: the argument is tested against None, not
\* for truth.
SetAxis_TestsNone(g, f, axis, attr, default, next) ==
    IF axis # None
    THEN IF IsAxisName(axis)
         THEN [g |-> setAttr(g, f.uv_pin, attr, AxisIndex(axis)),
               f |-> [f EXCEPT !.pc = next]]
         ELSE [g |-> g, f |-> Raise(f, "argument")]
    ELSE [g |-> setAttr(g, f.uv_pin, attr, default),
          f |-> [f EXCEPT !.pc = next]]

\* Lines 77-93 and 95-111: set the pin's axis attribute from the argument,
\* the default when the argument is false, or raise for an unknown name.
SetAxis(g, f, axis, attr, default, next) ==
    IF Truthy(axis)
    THEN IF IsAxisName(axis)
         THEN [g |-> setAttr(g, f.uv_pin, attr, AxisIndex(axis)),
               f |-> [f EXCEPT !.pc = next]]
         ELSE [g |-> g, f |-> Raise(f, "argument")]
    ELSE [g |-> setAttr(g, f.uv_pin, attr, default),
          f |-> [f EXCEPT !.pc = next]]

L77(g, f) == SetAxis(g, f, f.normal_axis, "normalAxis", 1, "L95")

L95(g, f) == SetAxis(g, f, f.tangent_axis, "tangentAxis", 0, "L114")

\* Lines 114-119: normalizedIsoParms, coordinate[0], the connection to the
\* pinned object's offsetParentMatrix, then the normalize option.
L114(g, f) ==
    LET g1 == setAttr(g, f.uv_pin, "normalizedIsoParms", FALSE)
        g2 == setAttr(g1, f.uv_pin, "coordinate", <<f.u, f.v>>)
        r116 == Connect(g2, f, Plug(f.uv_pin, "outputMatrix[0]"),
                        Plug(f.object_to_pin, "offsetParentMatrix"), FALSE)
    IN  IF Failed(r116) THEN r116
        ELSE [g |-> IF f.normalize
                    THEN setAttr(r116.g, f.uv_pin, "normalizedIsoParms", TRUE)
                    ELSE r116.g,
              f |-> [r116.f EXCEPT !.pc = "L121"]]

\* L121 with a plausible bug: inheritsTransform is disabled in both modes.
L121_AlwaysDisablesInherit(g, f) ==
    LET g1 == setAttr(g, f.object_to_pin, "inheritsTransform", FALSE)
    IN  [g |-> IF f.local_space
               THEN setAttr(g1, f.uv_pin, "relativeSpaceMode", TRUE)
               ELSE g1,
         f |-> [f EXCEPT !.ret = f.uv_pin, !.pc = "returned"]]

\* Lines 121-125: the space mode, and the return of the pin's name.
L121(g, f) ==
    [g |-> IF f.local_space
           THEN setAttr(g, f.uv_pin, "relativeSpaceMode", TRUE)
           ELSE setAttr(g, f.object_to_pin, "inheritsTransform", FALSE),
     f |-> [f EXCEPT !.ret = f.uv_pin, !.pc = "returned"]]

(***************************************************************************)
(* The starting scenes: one surface transform with up to MaxShapes shape   *)
(* children of any type, each intermediate or not, optionally a generator  *)
(* node feeding one shape's input; and three objects to pin, all with a    *)
(* non-zero transform: locA inherits its parent's transform, locB does     *)
(* not, locC is already driven by a pin made earlier.                      *)
(***************************************************************************)
Surface == <<"surf">>
Generator == <<"polyCube">>
Objects == {<<"locA">>, <<"locB">>, <<"locC">>}

ShapeName(i) == IF i = 1 THEN <<"surfShape">> ELSE <<"surfShape", Suffixes[i - 1]>>

InputAttr(type) == IF type = "mesh" THEN "inMesh" ELSE "create"

Moved(inherits) ==
    [NewNode("transform", NoNode) EXCEPT !.translation = <<1, 2, 3>>,
                                         !.rotation = <<4, 5, 6>>,
                                         !.inheritsTransform = inherits]

RECURSIVE AddShapes(_, _, _)
AddShapes(g, kinds, i) ==
    IF i > Len(kinds) THEN g
    ELSE AddShapes(
            AddNode(g, ShapeName(i),
                    [NewNode(kinds[i][1], Surface) EXCEPT
                        !.intermediateObject = kinds[i][2]]),
            kinds, i + 1)

StartScene(kinds, fed) ==
    LET nodes == (Surface :> NewNode("transform", NoNode))
              @@ (Generator :> NewNode("polyCube", NoNode))
              @@ (<<"locA">> :> Moved(TRUE))
              @@ (<<"locB">> :> Moved(FALSE))
              @@ (<<"locC">> :> Moved(TRUE))
              @@ (<<"locC", "_uvPin">> :> NewNode("uvPin", NoNode))
        pinned == <<Plug(<<"locC", "_uvPin">>, "outputMatrix[0]"),
                    Plug(<<"locC">>, "offsetParentMatrix")>>
        upstream == IF fed = 0 THEN {}
                    ELSE {<<Plug(Generator, "output"),
                            Plug(ShapeName(fed), InputAttr(kinds[fed][1]))>>}
    IN  AddShapes([nodes |-> nodes, conns |-> {pinned} \cup upstream], kinds, 1)

StartScenes ==
    {StartScene(kinds, fed) :
        <<kinds, fed>> \in
            UNION {[1..n -> ShapeTypes \X BOOLEAN] \X {k} :
                      <<n, k>> \in {<<a, b>> \in (0..MaxShapes) \X (0..MaxShapes) : b <= a}}}

Init ==
    /\ scene \in StartScenes
    /\ frame = IdleFrame
    /\ before = scene
    /\ log = <<>>

(***************************************************************************)
(* The inputs of a call: for each argument, the values the caller may     *)
(* pass.  u and v are counted in quarters: <<1, 3>> is (0.25, 0.75).       *)
(***************************************************************************)
AxisInputs == {None, "", "x", "y", "z", "-x", "-y", "-z", "q"}

\* Every option, with a few axis names.
AllInputs ==
    [object_to_pin |-> Objects, coordinate |-> {<<0, 0>>, <<1, 3>>},
     local_space |-> BOOLEAN, normalize |-> BOOLEAN,
     normal_axis |-> {None, "", "-z", "q"},
     tangent_axis |-> {None, "y", "q"},
     reset_transforms |-> BOOLEAN]

\* Every axis name for both axes, with a few of the other options.
AxisStudy ==
    [object_to_pin |-> {<<"locA">>, <<"locB">>}, coordinate |-> {<<1, 3>>},
     local_space |-> BOOLEAN, normalize |-> {FALSE},
     normal_axis |-> AxisInputs, tangent_axis |-> AxisInputs,
     reset_transforms |-> {TRUE}]

\* The calls of a sequence of calls.
SeqInputs ==
    [object_to_pin |-> Objects, coordinate |-> {<<1, 3>>},
     local_space |-> BOOLEAN, normalize |-> {FALSE},
     normal_axis |-> {None, "q"}, tangent_axis |-> {None},
     reset_transforms |-> {TRUE}]

Running(line) == frame.pc = line

Apply(r) == scene' = r.g /\ frame' = r.f /\ UNCHANGED <<before, log>>

\* The caller binds the arguments; the ones read late are bound, for the
\* model, where the function first reads them.
Call(D) ==
    /\ Running("idle")
    /\ Len(log) < MaxCalls
    /\ \E obj \in D.object_to_pin, reset \in D.reset_transforms :
          frame' = [IdleFrame EXCEPT !.pc = "L32", !.object_to_pin = obj,
                                     !.surface = Surface,
                                     !.reset_transforms = reset]
    /\ before' = scene
    /\ UNCHANGED <<scene, log>>

ListShapes == Running("L32") /\ Apply(L32(scene, frame))

ChooseShapes == Running("L37") /\ Apply(L37(scene, frame))

SurfaceType == Running("L41") /\ Apply(L41(scene, frame))

DuplicateShape == Running("L54") /\ Apply(L54(scene, frame))

ReparentOrig == Running("L60") /\ Apply(L60(scene, frame))

ReconnectInput == Running("L65") /\ Apply(L65(scene, frame))

CreatePin == Running("L72") /\ Apply(L72(scene, frame))

ResetTransforms == Running("L75") /\ Apply(L75(scene, frame))

NormalAxis(D) ==
    /\ Running("L77")
    /\ \E a \in D.normal_axis :
          Apply(L77(scene, [frame EXCEPT !.normal_axis = a]))

TangentAxis(D) ==
    /\ Running("L95")
    /\ \E a \in D.tangent_axis :
          Apply(L95(scene, [frame EXCEPT !.tangent_axis = a]))

Configure(D) ==
    /\ Running("L114")
    /\ \E c \in D.coordinate, n \in D.normalize :
          Apply(L114(scene, [frame EXCEPT !.u = c[1], !.v = c[2], !.normalize = n]))

SpaceMode(D) ==
    /\ Running("L121")
    /\ \E l \in D.local_space :
          Apply(L121(scene, [frame EXCEPT !.local_space = l]))

\* The call is over; the caller goes on to its next call.
Finish ==
    /\ frame.pc \in {"returned", "raised"}
    /\ log' = Append(log, [error |-> frame.error, ret |-> frame.ret,
                            made |-> frame.made])
    /\ frame' = IdleFrame
    /\ UNCHANGED <<scene, before>>

\* One call of make_uv_pin with its arguments drawn from D.
Program(D) ==
    \/ Call(D)
    \/ ListShapes \/ ChooseShapes \/ SurfaceType
    \/ DuplicateShape \/ ReparentOrig \/ ReconnectInput
    \/ CreatePin \/ ResetTransforms
    \/ NormalAxis(D) \/ TangentAxis(D) \/ Configure(D) \/ SpaceMode(D)

\* One call, from any starting scene.
Next == Program(AllInputs)

Spec == Init /\ [][Next]_vars

NextAxes == Program(AxisStudy)

SpecAxes == Init /\ [][NextAxes]_vars

\* Up to MaxCalls calls, one after the other, on a surface that starts
\* with a single non-intermediate shape.
InitSeq ==
    /\ Init
    /\ Len(scene.nodes[Surface].children) = 1
    /\ \A s \in Range(scene.nodes[Surface].children) : ~isIntermediate(scene, s)

NextSeq == Program(SeqInputs) \/ Finish

SpecSeq == InitSeq /\ [][NextSeq]_vars

(***************************************************************************)
(* The function run to its end from scene g with the arguments bound in    *)
(* frame f: the same blocks, one after the other.                          *)
(***************************************************************************)
Ended(f) == f.pc \in {"returned", "raised"}

Block(g, f) ==
    CASE f.pc = "L32" -> L32(g, f)
      [] f.pc = "L37" -> L37(g, f)
      [] f.pc = "L41" -> L41(g, f)
      [] f.pc = "L54" -> L54(g, f)
      [] f.pc = "L60" -> L60(g, f)
      [] f.pc = "L65" -> L65(g, f)
      [] f.pc = "L72" -> L72(g, f)
      [] f.pc = "L75" -> L75(g, f)
      [] f.pc = "L77" -> L77(g, f)
      [] f.pc = "L95" -> L95(g, f)
      [] f.pc = "L114" -> L114(g, f)
      [] f.pc = "L121" -> L121(g, f)

RECURSIVE RunFrom(_, _)
RunFrom(g, f) ==
    IF Ended(f) THEN [g |-> g, f |-> f]
    ELSE LET r == Block(g, f) IN RunFrom(r.g, r.f)

\* make_uv_pin(...) called in scene g with the arguments of frame `args`.
make_uv_pin(g, args) ==
    RunFrom(g, [IdleFrame EXCEPT
                  !.pc = "L32",
                  !.object_to_pin = args.object_to_pin,
                  !.surface = args.surface,
                  !.u = args.u, !.v = args.v,
                  !.local_space = args.local_space,
                  !.normalize = args.normalize,
                  !.normal_axis = args.normal_axis,
                  !.tangent_axis = args.tangent_axis,
                  !.reset_transforms = args.reset_transforms])

(***************************************************************************)
(* What the properties speak of, read off the scene graph.                 *)
(***************************************************************************)
ShapesOf(g) == listRelatives(g, Surface)

Inters(g) == {s \in Range(ShapesOf(g)) : isIntermediate(g, s)}

Actives(g) == {s \in Range(ShapesOf(g)) : ~isIntermediate(g, s)}

\* The active shape: the first non-intermediate shape of the surface (the
\* first shape, when every shape is intermediate).
ActiveShape(g) ==
    FirstOr(ShapesOf(g), Flagged(g, ShapesOf(g), FALSE), ShapesOf(g)[1])

\* The reference shape: the first intermediate shape of the surface.
ReferenceShape(g) ==
    FirstOr(ShapesOf(g), Flagged(g, ShapesOf(g), TRUE), NoNode)

WorldAttr(type) == IF type = "mesh" THEN "worldMesh[0]" ELSE "worldSpace[0]"

LocalAttr(type) == IF type = "mesh" THEN "outMesh" ELSE "local"

\* The plugs feeding plug `dst`.
Fed(g, dst) == {c[1] : c \in {d \in g.conns : d[2] = dst}}

\* The uvPin nodes the running call has created.
NewPins ==
    {n \in DOMAIN scene.nodes \ DOMAIN before.nodes : scene.nodes[n].type = "uvPin"}

Returned == frame.pc = "returned"

RaisedWith(kind) == frame.pc = "raised" /\ frame.error = kind

(***************************************************************************)
(* C1: whenever make_uv_pin returns normally, the value returned is the    *)
(* pin node this call created; the active shape's world-space output feeds *)
(* its deformedGeometry, the reference shape's local output feeds its      *)
(* originalGeometry, its outputMatrix[0] feeds the pinned object's         *)
(* offsetParentMatrix, and its coordinate entry 0 reads back (u, v).       *)
(***************************************************************************)
C1_ReturnedPinIsWired ==
    Returned =>
        LET pin == frame.ret
            active == ActiveShape(before)
            ref == ReferenceShape(scene)
            type == before.nodes[active].type
        IN  /\ NewPins = {pin}
            /\ Fed(scene, Plug(pin, "deformedGeometry"))
                  = {Plug(active, WorldAttr(type))}
            /\ Fed(scene, Plug(pin, "originalGeometry"))
                  = {Plug(ref, LocalAttr(type))}
            /\ Fed(scene, Plug(frame.object_to_pin, "offsetParentMatrix"))
                  = {Plug(pin, "outputMatrix[0]")}
            /\ scene.nodes[pin].coordinate = <<frame.u, frame.v>>

\* A call with u = 0.25, v = 0.75 has returned and the pin holds them.
C1_Witness ==
    /\ Returned
    /\ <<frame.u, frame.v>> = <<1, 3>>
    /\ scene.nodes[frame.ret].coordinate = <<1, 3>>

(***************************************************************************)
(* C2: for a mesh surface with no intermediate shape, one call results in  *)
(* exactly one new shape under the surface, named the active shape's name  *)
(* plus "Orig", flagged intermediate, its world output feeding the active  *)
(* shape's input; what fed the active shape's input before the call now    *)
(* feeds the new shape's input.                                            *)
(***************************************************************************)
MeshWithoutIntermediate(g) ==
    /\ ShapesOf(g) # <<>>
    /\ Inters(g) = {}
    /\ g.nodes[ActiveShape(g)].type = "mesh"

C2_OneOrigShape ==
    (Ended(frame) /\ MeshWithoutIntermediate(before)) =>
        LET active == ActiveShape(before)
            orig == Append(active, "Orig")
            upstream == Fed(before, Plug(active, "inMesh"))
        IN  /\ Range(ShapesOf(scene)) \ Range(ShapesOf(before)) = {orig}
            /\ Inters(scene) = {orig}
            /\ orig \notin DOMAIN before.nodes
            /\ scene.nodes[orig].parent = Surface
            /\ scene.nodes[orig].type = "mesh"
            /\ Fed(scene, Plug(active, "inMesh")) = {Plug(orig, "worldMesh[0]")}
            /\ Fed(scene, Plug(orig, "inMesh")) = upstream

\* A call on such a surface, whose active shape had an upstream connection,
\* has returned.
C2_Witness ==
    /\ Returned
    /\ MeshWithoutIntermediate(before)
    /\ Fed(before, Plug(ActiveShape(before), "inMesh")) # {}
    /\ Inters(scene) # {}

(***************************************************************************)
(* C3: a call on a surface that has an intermediate shape creates no       *)
(* second one; after any sequence of successful calls on a surface that    *)
(* started with a single non-intermediate shape, the surface has exactly   *)
(* one intermediate shape, made by the first call, and every pin returned  *)
(* takes its originalGeometry from it.                                     *)
(***************************************************************************)
AllSucceeded ==
    /\ frame.pc = "idle"
    /\ log # <<>>
    /\ \A i \in 1..Len(log) : log[i].error = "none"

C3_SingleIntermediate ==
    /\ Inters(before) # {} => Inters(scene) = Inters(before)
    /\ AllSucceeded =>
          \E orig \in log[1].made :
              /\ Inters(scene) = {orig}
              /\ \A i \in 1..Len(log) :
                    Fed(scene, Plug(log[i].ret, "originalGeometry"))
                        = {Plug(orig, LocalAttr(scene.nodes[orig].type))}

\* Two calls have succeeded, one after the other.
C3_Witness ==
    /\ AllSucceeded
    /\ Len(log) >= 2
    /\ log[1].ret # log[2].ret

(***************************************************************************)
(* C4: a call on a surface with no shape child, or whose active shape is   *)
(* neither a mesh nor a nurbsSurface, ends in a scene-state error, and     *)
(* nothing has been created, connected or changed.                         *)
(***************************************************************************)
SceneFault(g) ==
    \/ ShapesOf(g) = <<>>
    \/ g.nodes[ActiveShape(g)].type \notin {"mesh", "nurbsSurface"}

C4_SceneErrorBeforeMutation ==
    (frame.pc # "idle" /\ SceneFault(before)) =>
        /\ frame.pc \in {"L32", "L37", "L41", "raised"}
        /\ frame.pc = "raised" => frame.error = "scene"
        /\ scene = before
        /\ frame.made = {} /\ frame.connected = {}

\* A call on a surface whose only shape is a nurbsCurve has been aborted.
C4_Witness ==
    /\ RaisedWith("scene")
    /\ ShapesOf(before) # <<>>
    /\ before.nodes[ActiveShape(before)].type = "nurbsCurve"

(***************************************************************************)
(* C5, as claimed: in an otherwise valid call, a normal_axis or            *)
(* tangent_axis outside {x, y, z, -x, -y, -z}, the empty string included,  *)
(* raises the argument error, and a value inside the set never does.       *)
(***************************************************************************)
SixAxes == {"x", "y", "z", "-x", "-y", "-z"}

OtherwiseValid == Ended(frame) /\ frame.error \notin {"scene", "host"}

C5_AnyOutsideAxisRaises ==
    OtherwiseValid =>
        (frame.error = "argument" <=>
            \/ (frame.normal_axis # None /\ frame.normal_axis \notin SixAxes)
            \/ (frame.tangent_axis # None /\ frame.tangent_axis \notin SixAxes))

(***************************************************************************)
(* C5, amended: in an otherwise valid call, a non-empty normal_axis or     *)
(* tangent_axis outside {x, y, z, -x, -y, -z} raises the argument error;   *)
(* a value inside the set never does, and neither does the empty string,   *)
(* which selects the default axis as an omitted argument does.             *)
(***************************************************************************)
C5_NonEmptyOutsideAxisRaises ==
    /\ OtherwiseValid =>
          (frame.error = "argument" <=>
              \/ (Truthy(frame.normal_axis) /\ frame.normal_axis \notin SixAxes)
              \/ (Truthy(frame.tangent_axis) /\ frame.tangent_axis \notin SixAxes))
    /\ (Returned /\ frame.normal_axis = "") => scene.nodes[frame.ret].normalAxis = 1
    /\ (Returned /\ frame.tangent_axis = "") => scene.nodes[frame.ret].tangentAxis = 0

\* A call with a valid normal_axis and tangent_axis "q" has raised.
C5_Witness ==
    /\ RaisedWith("argument")
    /\ frame.normal_axis = "-z"
    /\ frame.tangent_axis = "q"

(***************************************************************************)
(* C6: when the invalid-axis fault is raised, the pin node exists with its *)
(* deformedGeometry and originalGeometry connected (and the "Orig" shape   *)
(* made, where the surface had no intermediate shape), the pinned object's *)
(* translation and rotation are zero, but coordinate[0] is not set, the    *)
(* pin's outputMatrix does not feed the object's offsetParentMatrix and    *)
(* the object's inheritsTransform is as it was.                            *)
(***************************************************************************)
C6_AxisFaultLeavesPartialGraph ==
    RaisedWith("argument") =>
        LET obj == frame.object_to_pin
        IN  /\ \E pin \in NewPins :
                  /\ NewPins = {pin}
                  /\ Fed(scene, Plug(pin, "deformedGeometry")) # {}
                  /\ Fed(scene, Plug(pin, "originalGeometry")) # {}
                  /\ scene.nodes[pin].coordinate = Unset
                  /\ Plug(pin, "outputMatrix[0]")
                        \notin Fed(scene, Plug(obj, "offsetParentMatrix"))
            /\ Inters(before) = {} => Cardinality(Inters(scene)) = 1
            /\ scene.nodes[obj].translation = Zero3
            /\ scene.nodes[obj].rotation = Zero3
            /\ scene.nodes[obj].inheritsTransform
                  = before.nodes[obj].inheritsTransform

\* The fault was raised for tangent_axis, on a surface that had no
\* intermediate shape, for an object that had a non-zero translation.
C6_Witness ==
    /\ RaisedWith("argument")
    /\ frame.tangent_axis = "q"
    /\ Inters(before) = {}
    /\ before.nodes[frame.object_to_pin].translation # Zero3
    /\ NewPins # {}

(***************************************************************************)
(* C7: after a successful call with local_space false the pinned object's  *)
(* inheritsTransform is off and the pin's relativeSpaceMode is as the host *)
(* created it; with local_space true the pin's relativeSpaceMode is on and *)
(* the object's inheritsTransform is what it was before the call.          *)
(***************************************************************************)
C7_SpaceModeExclusive ==
    Returned =>
        LET obj == frame.object_to_pin
            pin == frame.ret
        IN  IF frame.local_space
            THEN /\ scene.nodes[pin].relativeSpaceMode = TRUE
                 /\ scene.nodes[obj].inheritsTransform
                       = before.nodes[obj].inheritsTransform
            ELSE /\ scene.nodes[obj].inheritsTransform = FALSE
                 /\ scene.nodes[pin].relativeSpaceMode
                       = NewNode("uvPin", NoNode).relativeSpaceMode

\* A local-space call has returned and the object still inherits.
C7_Witness ==
    /\ Returned
    /\ frame.local_space
    /\ scene.nodes[frame.object_to_pin].inheritsTransform = TRUE

(***************************************************************************)
(* C8: the call with reset_transforms flipped, from the same scene and     *)
(* with the other arguments the same, ends in the same scene with the same *)
(* result; and in both every call that gets past the surface checks has    *)
(* zeroed the object's translation and rotation.                           *)
(***************************************************************************)
Zeroed(g, obj) ==
    g.nodes[obj].translation = Zero3 /\ g.nodes[obj].rotation = Zero3

C9_TwoNodesFourConnections ==
    Ended(frame) =>
        /\ Cardinality(frame.made) <= 2
        /\ Cardinality(frame.connected) <= 4

(***************************************************************************)
(* C9, amended: one call leaves at most two new nodes in the graph (the    *)
(* "Orig" shape and the pin node; the duplicate's transform is created and *)
(* deleted on top of these) and makes at most five connections.            *)
(***************************************************************************)
C9_TwoNodesKeptFiveConnections ==
    Ended(frame) =>
        LET kept == DOMAIN scene.nodes \ DOMAIN before.nodes
        IN  /\ kept = frame.made \cap DOMAIN scene.nodes
            /\ Cardinality(kept) <= 2
            /\ \A n \in kept : scene.nodes[n].type \in {"uvPin"} \cup ShapeTypes
            /\ DOMAIN before.nodes \subseteq DOMAIN scene.nodes
            /\ scene.conns \ before.conns = frame.connected
            /\ Cardinality(frame.connected) <= 5

\* A call has returned having kept two nodes, deleted a third and made
\* five connections.
C9_Witness ==
    /\ Returned
    /\ Cardinality(frame.made \cap DOMAIN scene.nodes) = 2
    /\ Cardinality(frame.made) > 2
    /\ Cardinality(frame.connected) = 5

(***************************************************************************)
(* C10, as claimed: for every pin a call creates, the shape feeding its    *)
(* deformedGeometry is non-intermediate and is not the shape feeding its   *)
(* originalGeometry, whatever the surface's shapes.                        *)
(***************************************************************************)
DistinctFeeds(pin) ==
    \A d \in Fed(scene, Plug(pin, "deformedGeometry")),
       o \in Fed(scene, Plug(pin, "originalGeometry")) :
        /\ ~isIntermediate(scene, d[1])
        /\ d[1] # o[1]

C10_ActiveIsNotReference == \A pin \in NewPins : DistinctFeeds(pin)

(***************************************************************************)
(* C10, amended: the same, for a surface with at least one                 *)
(* non-intermediate shape; on a surface whose shapes are all intermediate  *)
(* the first shape is taken as the active shape and as the reference       *)
(* shape, and feeds both inputs of the pin.                                *)
(***************************************************************************)
C10_ActiveIsNotReferenceIfAny ==
    \A pin \in NewPins :
        /\ Fed(scene, Plug(pin, "deformedGeometry")) # {}
        /\ Fed(scene, Plug(pin, "originalGeometry")) # {}
        /\ IF Actives(before) # {}
           THEN DistinctFeeds(pin)
           ELSE \A p \in Fed(scene, Plug(pin, "deformedGeometry"))
                        \cup Fed(scene, Plug(pin, "originalGeometry")) :
                    p[1] = ShapesOf(before)[1]

\* A call has returned on a surface that had an intermediate and a
\* non-intermediate shape.
C10_Witness ==
    /\ Returned
    /\ Actives(before) # {}
    /\ Inters(before) # {}
    /\ NewPins # {}

====
